---- MODULE Spec2Model ----
(***************************************************************************)
(* Model of the yupsh/ls directory lister.                                 *)
(*                                                                         *)
(* The repository holds two implementations of the command:                *)
(*   impl = "ls"  : src/ls.go, command.Execute / listPath (context aware)  *)
(*   impl = "cmd" : src/unnamed/part_000, command.Executor / listSingle /  *)
(*                  listRecursive (pattern expansion, no context checks)   *)
(* Strings are sequences of byte values, so that Go's byte-wise string     *)
(* comparison, prefix tests and concatenations are computed, not assumed.  *)
(* File sizes are int64 values written as base-1024 digits, most           *)
(* significant first, because they exceed the range of TLC's integers.     *)
(***************************************************************************)
EXTENDS Integers, Sequences, FiniteSets, TLC

VARIABLES
    impl,        \* which implementation runs
    flags,       \* the Flags record of the invocation
    positional,  \* the positional arguments
    fault,       \* the one I/O operation of the file system that fails
    ctx,         \* "background" (never cancelled), "live" or "cancelled"
    pc,          \* position of Execute / Executor
    paths,       \* the path list the top-level loop ranges over
    i,           \* 1-based index of the top-level loop
    stack,       \* activation records of listPath, innermost last
    stdout,      \* lines written to the primary output
    stderr,      \* lines written to the diagnostic stream
    ret,         \* the error returned by Execute (NilErr for nil)
    outTag,      \* history: what each stdout line is
    errTag,      \* history: what each stderr line is
    observed,    \* history: a cancellation check has seen the signal
    obsOut,      \* history: Len(stdout) when the signal was first seen
    obsErr,      \* history: Len(stderr) when the signal was first seen
    hsize,       \* size handed to the human-readable formatter
    hout,        \* its result
    bpattern,    \* pattern handed to expandBraces
    bout         \* its result

lsVars == <<impl, flags, positional, fault, ctx, pc, paths, i, stack,
            stdout, stderr, ret, outTag, errTag, observed, obsOut, obsErr>>
fnVars == <<hsize, hout, bpattern, bout>>
vars == <<lsVars, fnVars>>

-----------------------------------------------------------------------------
(* Bounds of the model.                                                    *)

MaxPaths == 2
MaxTokens == 3

-----------------------------------------------------------------------------
(* Byte strings.                                                           *)

S_ls == <<108, 115, 58, 32>>                     \* "ls: "
S_colonSpace == <<58, 32>>                       \* ": "
S_colon == <<58>>                                \* ":"
S_dot == <<46>>                                  \* "."
S_dotdot == <<46, 46>>                           \* ".."
S_comma == <<44>>                                \* ","
S_space == <<32>>                                \* " "
S_canceled == <<99, 111, 110, 116, 101, 120, 116, 32,
                99, 97, 110, 99, 101, 108, 101, 100>>   \* "context canceled"
S_stat == <<115, 116, 97, 116, 32>>              \* "stat "
S_open == <<111, 112, 101, 110, 32>>             \* "open "
S_lstat == <<108, 115, 116, 97, 116, 32>>        \* "lstat "
S_enoent == <<110, 111, 32, 115, 117, 99, 104, 32, 102, 105, 108, 101, 32,
              111, 114, 32, 100, 105, 114, 101, 99, 116, 111, 114, 121>>
S_eacces == <<112, 101, 114, 109, 105, 115, 115, 105, 111, 110, 32,
              100, 101, 110, 105, 101, 100>>     \* "permission denied"
S_invalid == <<105, 110, 118, 97, 108, 105, 100, 32,
               112, 97, 116, 116, 101, 114, 110, 32>>   \* "invalid pattern "
S_badpat == <<115, 121, 110, 116, 97, 120, 32, 101, 114, 114, 111, 114, 32,
              105, 110, 32, 112, 97, 116, 116, 101, 114, 110>>
S_modeDir == <<100, 114, 119, 120, 114, 45, 120, 114, 45, 120>>  \* drwxr-xr-x
S_modeFile == <<45, 114, 119, 45, 114, 45, 45, 114, 45, 45>>     \* -rw-r--r--
S_B == <<66>>                                    \* "B"

NilErr == <<>>

Min(a, b) == IF a < b THEN a ELSE b

\* Go's < on strings: byte-wise lexicographic.
StrLess(a, b) ==
    \E k \in 1..(Min(Len(a), Len(b)) + 1) :
        /\ \A j \in 1..(k - 1) : a[j] = b[j]
        /\ \/ k > Len(a) /\ k <= Len(b)
           \/ k <= Len(a) /\ k <= Len(b) /\ a[k] < b[k]

\* strings.HasPrefix
HasPrefix(s, p) == Len(s) >= Len(p) /\ SubSeq(s, 1, Len(p)) = p

\* strings.Index: 1-based position of the first occurrence, 0 when absent.
Index(s, sub) ==
    LET hits == {k \in 1..(Len(s) - Len(sub) + 1) :
                    SubSeq(s, k, k + Len(sub) - 1) = sub}
    IN IF hits = {} THEN 0 ELSE CHOOSE k \in hits : \A m \in hits : k <= m

\* filepath.Base on a clean path: what follows the last '/'.
Base(path) ==
    LET slashes == {k \in 1..Len(path) : path[k] = 47}
        last == IF slashes = {} THEN 0
                ELSE CHOOSE k \in slashes : \A m \in slashes : m <= k
    IN IF path = <<>> THEN S_dot ELSE SubSeq(path, last + 1, Len(path))

\* filepath.Join(dir, name) for a clean dir and a single name: Clean drops
\* the leading "./".
Join(dir, name) == IF dir = S_dot THEN name ELSE dir \o <<47>> \o name

RECURSIVE Concat(_)
Concat(ss) == IF ss = <<>> THEN <<>> ELSE Head(ss) \o Concat(Tail(ss))

\* fmt's %d for a non-negative int.
RECURSIVE Dec(_)
Dec(n) == IF n < 10 THEN <<48 + n>> ELSE Dec(n \div 10) \o <<48 + (n % 10)>>

\* fmt's %Ns: right-align in a field of the given width.
RECURSIVE Pad(_, _)
Pad(s, width) == IF Len(s) >= width THEN s ELSE Pad(S_space \o s, width)

-----------------------------------------------------------------------------
(* int64 sizes as base-1024 digits, most significant first, no leading     *)
(* zero digit except for the value 0 itself, which is <<0>>.               *)

unit == 1024

RECURSIVE Norm(_)
Norm(n) == IF Len(n) > 1 /\ Head(n) = 0 THEN Norm(Tail(n)) ELSE n

\* a < b on int64
SizeLess(a, b) ==
    \/ Len(a) < Len(b)
    \/ /\ Len(a) = Len(b)
       /\ \E k \in 1..Len(a) :
            /\ \A j \in 1..(k - 1) : a[j] = b[j]
            /\ a[k] < b[k]

\* n / unit on int64 (n >= 0)
DivUnit(n) == IF Len(n) = 1 THEN <<0>> ELSE SubSeq(n, 1, Len(n) - 1)

\* n * unit on int64
MulUnit(n) == IF n = <<0>> THEN n ELSE Append(n, 0)

UnitSize == <<1, 0>>

\* long division by ten, digit by digit
RECURSIVE LongDiv10(_, _)
LongDiv10(n, r) ==
    IF n = <<>> THEN [q |-> <<>>, r |-> r]
    ELSE LET cur == r * unit + Head(n)
             rest == LongDiv10(Tail(n), cur % 10)
         IN [q |-> <<cur \div 10>> \o rest.q, r |-> rest.r]

\* fmt's %d for an int64 (n >= 0)
RECURSIVE DecSize(_)
DecSize(n) ==
    IF Len(n) = 1 /\ n[1] < 10 THEN <<48 + n[1]>>
    ELSE LET d == LongDiv10(n, 0) IN DecSize(Norm(d.q)) \o <<48 + d.r>>

\* ten times a fraction given by its base-1024 digits: the carry out is the
\* first decimal digit, the digits left are the remainder
RECURSIVE Mul10(_)
Mul10(f) ==
    IF f = <<>> THEN [carry |-> 0, digits |-> <<>>]
    ELSE LET rest == Mul10(Tail(f))
             cur == Head(f) * 10 + rest.carry
         IN [carry |-> cur \div unit, digits |-> <<cur % unit>> \o rest.digits]

\* fmt's %.1f of float64(size)/float64(div), div a power of unit no larger
\* than size and size < unit*div: the quotient rounded to one fractional
\* digit, ties to even.  Exact whenever float64(size) is exact, which holds
\* for every size with at most 53 significant bits.
FormatF1(size, div) ==
    LET m == Len(div) - 1
        ip == size[1]
        t == Mul10(SubSeq(size, Len(size) - m + 1, Len(size)))
        r == t.digits
        half == unit \div 2
        restZero == \A k \in 2..Len(r) : r[k] = 0
        up == \/ r[1] > half
              \/ r[1] = half /\ ~restZero
              \/ r[1] = half /\ restZero /\ t.carry % 2 = 1
        tenths == t.carry + (IF up THEN 1 ELSE 0)
    IN IF tenths = 10 THEN Dec(ip + 1) \o S_dot \o <<48>>
       ELSE Dec(ip) \o S_dot \o <<48 + tenths>>

\* the units tables: K M G T in ls.go, K M G T P E in part_000
Units(im) ==
    IF im = "ls" THEN <<<<75>>, <<77>>, <<71>>, <<84>>>>
    ELSE <<<<75>>, <<77>>, <<71>>, <<84>>, <<80>>, <<69>>>>

\* the loop  for n := size/unit; n >= unit; n /= unit { div *= unit; exp++ }
RECURSIVE ScaleLoop(_, _, _)
ScaleLoop(n, div, exp) ==
    IF ~SizeLess(n, UnitSize) THEN ScaleLoop(DivUnit(n), MulUnit(div), exp + 1)
    ELSE [div |-> div, exp |-> exp]

\* humanReadableSize / formatHumanReadable.  panic: units[exp] out of range.
humanReadableSize(im, size) ==
    IF SizeLess(size, UnitSize) THEN [panic |-> FALSE, text |-> DecSize(size) \o S_B]
    ELSE LET l == ScaleLoop(DivUnit(size), UnitSize, 0)
         IN IF l.exp >= Len(Units(im)) THEN [panic |-> TRUE, text |-> <<>>]
            ELSE [panic |-> FALSE,
                  text |-> FormatF1(size, l.div) \o Units(im)[l.exp + 1]]

-----------------------------------------------------------------------------
(* The file system the listing runs on.                                    *)
(*    ./d/      ./f      d/.h  d/a  d/b  d/s/     d/s/c                    *)

P_dot == <<46>>
P_d == <<100>>
P_f == <<102>>
P_x == <<120>>
P_braces == <<123, 100, 44, 120, 125>>           \* "{d,x}"
P_bad == <<91>>                                  \* "["
P_dh == <<100, 47, 46, 104>>                     \* "d/.h"
P_da == <<100, 47, 97>>
P_db == <<100, 47, 98>>
P_ds == <<100, 47, 115>>
P_dsc == <<100, 47, 115, 47, 99>>

Tree ==
    (P_dot :> [isDir |-> TRUE,  size |-> <<4, 0>>,    mtime |-> 6]) @@
    (P_d   :> [isDir |-> TRUE,  size |-> <<4, 0>>,    mtime |-> 5]) @@
    (P_f   :> [isDir |-> FALSE, size |-> <<1, 512>>,  mtime |-> 2]) @@
    (P_dh  :> [isDir |-> FALSE, size |-> <<0>>,       mtime |-> 1]) @@
    (P_da  :> [isDir |-> FALSE, size |-> <<2, 0>>,    mtime |-> 3]) @@
    (P_db  :> [isDir |-> FALSE, size |-> <<10>>,      mtime |-> 3]) @@
    (P_ds  :> [isDir |-> TRUE,  size |-> <<4, 0>>,    mtime |-> 4]) @@
    (P_dsc :> [isDir |-> FALSE, size |-> <<1, 0, 0>>, mtime |-> 1])

NoFault == [op |-> "none", path |-> <<>>]
Faults == {NoFault,
           [op |-> "info", path |-> P_da], [op |-> "info", path |-> P_ds],
           [op |-> "read", path |-> P_ds], [op |-> "read", path |-> P_d]}

\* os.Stat: the error, NilErr on success
Stat(path) ==
    IF path \in DOMAIN Tree THEN NilErr
    ELSE S_stat \o path \o S_colonSpace \o S_enoent

\* names of the entries of a directory
DirNames(dir) ==
    {Base(p) : p \in {q \in DOMAIN Tree : q # P_dot /\ Join(dir, Base(q)) = q}}

RECURSIVE SortedByName(_)
SortedByName(S) ==
    IF S = {} THEN <<>>
    ELSE LET m == CHOOSE x \in S : \A y \in S \ {x} : StrLess(x, y)
         IN <<m>> \o SortedByName(S \ {m})

\* os.ReadDir: the entries sorted by filename, or an error
ReadDir(flt, dir) ==
    IF flt = [op |-> "read", path |-> dir]
    THEN [err |-> S_open \o dir \o S_colonSpace \o S_eacces, names |-> <<>>]
    ELSE [err |-> NilErr, names |-> SortedByName(DirNames(dir))]

\* DirEntry.Info of the entry at the given path: the error, NilErr on success
InfoErr(flt, path) ==
    IF flt = [op |-> "info", path |-> path]
    THEN S_lstat \o path \o S_colonSpace \o S_enoent
    ELSE NilErr

-----------------------------------------------------------------------------
(* Flags, filtering, sorting and formatting.                               *)

SortBys == {"name", "time", "size"}

FlagSpace ==
    [LongFormat : BOOLEAN, AllFiles : BOOLEAN, HumanReadable : BOOLEAN,
     Recursive : BOOLEAN, Reverse : BOOLEAN, SortBy : SortBys]

\* a filter that ignores AllFiles
Visible_IgnoresAllFiles(flg, name) == ~HasPrefix(name, S_dot)

\* the filter of listPath / listSingle: hidden names go unless AllFiles
Visible(flg, name) == ~(~flg.AllFiles /\ HasPrefix(name, S_dot))

RECURSIVE FilterEntries(_, _)
FilterEntries(flg, names) ==
    IF names = <<>> THEN <<>>
    ELSE IF Visible(flg, Head(names))
         THEN <<Head(names)>> \o FilterEntries(flg, Tail(names))
         ELSE FilterEntries(flg, Tail(names))

\* the comparator of sortEntries in ls.go: Info errors are discarded and
\* the nil FileInfo is dereferenced
LessLs(flg, flt, dir, a, b) ==
    LET bad == InfoErr(flt, Join(dir, a)) # NilErr \/ InfoErr(flt, Join(dir, b)) # NilErr
        ia == Tree[Join(dir, a)]
        ib == Tree[Join(dir, b)]
        less == CASE flg.SortBy = "time" -> ia.mtime < ib.mtime
                  [] flg.SortBy = "size" -> SizeLess(ia.size, ib.size)
                  [] OTHER -> StrLess(a, b)
    IN IF flg.SortBy \in {"time", "size"} /\ bad
       THEN [panic |-> TRUE, less |-> FALSE]
       ELSE [panic |-> FALSE, less |-> IF flg.Reverse THEN ~less ELSE less]

\* the comparator of sortEntries in part_000: newest and largest first,
\* by name when either Info fails
LessCmd(flg, flt, dir, a, b) ==
    LET bad == InfoErr(flt, Join(dir, a)) # NilErr \/ InfoErr(flt, Join(dir, b)) # NilErr
        ia == Tree[Join(dir, a)]
        ib == Tree[Join(dir, b)]
        less == CASE flg.SortBy = "time" ->
                        IF bad THEN StrLess(a, b) ELSE ia.mtime > ib.mtime
                  [] flg.SortBy = "size" ->
                        IF bad THEN StrLess(a, b) ELSE SizeLess(ib.size, ia.size)
                  [] OTHER -> StrLess(a, b)
    IN [panic |-> FALSE, less |-> IF flg.Reverse THEN ~less ELSE less]

Less(im, flg, flt, dir, a, b) ==
    IF im = "ls" THEN LessLs(flg, flt, dir, a, b) ELSE LessCmd(flg, flt, dir, a, b)

\* sort.Slice on fewer than 12 elements is an insertion sort:
\*   for i := 1; i < n; i++ { for j := i; j > 0 && less(j, j-1); j-- { swap } }
RECURSIVE Bubble(_, _, _, _, _, _)
Bubble(im, flg, flt, dir, s, j) ==
    IF j <= 1 THEN [panic |-> FALSE, items |-> s]
    ELSE LET c == Less(im, flg, flt, dir, s[j], s[j - 1])
         IN IF c.panic THEN [panic |-> TRUE, items |-> s]
            ELSE IF c.less
                 THEN Bubble(im, flg, flt, dir,
                             [s EXCEPT ![j] = s[j - 1], ![j - 1] = s[j]], j - 1)
                 ELSE [panic |-> FALSE, items |-> s]

RECURSIVE InsertionSort(_, _, _, _, _, _)
InsertionSort(im, flg, flt, dir, s, k) ==
    IF k > Len(s) THEN [panic |-> FALSE, items |-> s]
    ELSE LET b == Bubble(im, flg, flt, dir, s, k)
         IN IF b.panic THEN b
            ELSE InsertionSort(im, flg, flt, dir, b.items, k + 1)

\* sortEntries: cancelled (ls.go only) leaves the entries unsorted
sortEntries(im, flg, flt, cancelled, dir, items) ==
    IF im = "ls" /\ cancelled THEN [panic |-> FALSE, items |-> items]
    ELSE InsertionSort(im, flg, flt, dir, items, 2)

\* ModTime().Format(layout): the layouts (time.Stamp, time.DateTime) are not
\* modelled, the timestamp is written as its number
FormatTime(t) == Dec(t)

\* printLongFormat ("%s %8s %s %s") / formatLong ("%s %10s %s %s")
printLongFormat(im, flg, path) ==
    LET info == Tree[path]
        hr == humanReadableSize(im, info.size)
        sizeStr == IF flg.HumanReadable THEN hr.text ELSE DecSize(info.size)
        width == IF im = "ls" THEN 8 ELSE 10
        mode == IF info.isDir THEN S_modeDir ELSE S_modeFile
    IN [panic |-> flg.HumanReadable /\ hr.panic,
        text |-> mode \o S_space \o Pad(sizeStr, width) \o S_space
                 \o FormatTime(info.mtime) \o S_space \o Base(path)]

\* printFile / formatEntry: the line for one entry
printFile(im, flg, path) ==
    IF flg.LongFormat THEN printLongFormat(im, flg, path)
    ELSE [panic |-> FALSE, text |-> Base(path)]

\* "ls: %s: %v"
DiagLine(path, err) == S_ls \o path \o S_colonSpace \o err

\* "%s:" header of a listing
HeaderLine(path) == path \o S_colon

ErrKind(err) ==
    IF err = S_canceled THEN "cancel"
    ELSE IF HasPrefix(err, S_stat) THEN "stat"
    ELSE IF HasPrefix(err, S_open) THEN "read"
    ELSE IF HasPrefix(err, S_lstat) THEN "info"
    ELSE "pattern"

\* an output event: the line and what it is
OutEv(text, kind, path, dir, top) ==
    [text |-> text, tag |-> [kind |-> kind, path |-> path, dir |-> dir, top |-> top]]
ErrEv(path, err, top) ==
    [text |-> DiagLine(path, err),
     tag |-> [kind |-> ErrKind(err), path |-> path, top |-> top]]

RECURSIVE TextsOf(_)
TextsOf(evs) == IF evs = <<>> THEN <<>> ELSE <<Head(evs).text>> \o TextsOf(Tail(evs))
RECURSIVE TagsOf(_)
TagsOf(evs) == IF evs = <<>> THEN <<>> ELSE <<Head(evs).tag>> \o TagsOf(Tail(evs))

-----------------------------------------------------------------------------
(* Pattern expansion (part_000).                                           *)

\* strings.Split
RECURSIVE Split(_, _)
Split(s, sep) ==
    LET k == Index(s, sep)
    IN IF k = 0 THEN <<s>>
       ELSE <<SubSeq(s, 1, k - 1)>> \o Split(SubSeq(s, k + Len(sep), Len(s)), sep)

IsSpace(c) == c = 32 \/ (c >= 9 /\ c <= 13)

\* strings.TrimSpace
RECURSIVE TrimSpace(_)
TrimSpace(s) ==
    IF s = <<>> THEN s
    ELSE IF IsSpace(Head(s)) THEN TrimSpace(Tail(s))
    ELSE IF IsSpace(s[Len(s)]) THEN TrimSpace(SubSeq(s, 1, Len(s) - 1))
    ELSE s

IsDigit(c) == c >= 48 /\ c <= 57

RECURSIVE DigitRun(_)
DigitRun(s) ==
    IF s = <<>> \/ ~IsDigit(Head(s)) THEN <<>> ELSE <<Head(s)>> \o DigitRun(Tail(s))

RECURSIVE DigitsValue(_, _)
DigitsValue(ds, acc) ==
    IF ds = <<>> THEN acc ELSE DigitsValue(Tail(ds), acc * 10 + (Head(ds) - 48))

\* fmt.Sscanf(s, "%d", &v): an optional sign, then the leading run of
\* digits; what follows the digits is left unread
Sscanf(s) ==
    LET signed == s # <<>> /\ Head(s) \in {43, 45}
        body == IF signed THEN Tail(s) ELSE s
        ds == DigitRun(body)
        v == DigitsValue(ds, 0)
    IN IF ds = <<>> THEN [ok |-> FALSE, val |-> 0]
       ELSE [ok |-> TRUE, val |-> IF signed /\ Head(s) = 45 THEN 0 - v ELSE v]

\* fmt.Sprintf("%d", n)
Sprintd(n) == IF n < 0 THEN <<45>> \o Dec(0 - n) ELSE Dec(n)

RECURSIVE Ascending(_, _)
Ascending(lo, hi) == IF lo > hi THEN <<>> ELSE <<lo>> \o Ascending(lo + 1, hi)
RECURSIVE Descending(_, _)
Descending(hi, lo) == IF hi < lo THEN <<>> ELSE <<hi>> \o Descending(hi - 1, lo)

Counting(from, to) == IF from <= to THEN Ascending(from, to) ELSE Descending(from, to)

\* an expandRange that only counts upwards
expandRange_AscendingOnly(start, end) ==
    LET s == Sscanf(start)
        e == Sscanf(end)
        nums == Ascending(s.val, e.val)
        chars == Ascending(start[1], end[1])
    IN IF s.ok /\ e.ok THEN [k \in 1..Len(nums) |-> Sprintd(nums[k])]
       ELSE IF Len(start) = 1 /\ Len(end) = 1 THEN [k \in 1..Len(chars) |-> <<chars[k]>>]
       ELSE <<start, end>>

\* expandRange
expandRange(start, end) ==
    LET s == Sscanf(start)
        e == Sscanf(end)
        nums == Counting(s.val, e.val)
        chars == Counting(start[1], end[1])
    IN IF s.ok /\ e.ok THEN [k \in 1..Len(nums) |-> Sprintd(nums[k])]
       ELSE IF Len(start) = 1 /\ Len(end) = 1 THEN [k \in 1..Len(chars) |-> <<chars[k]>>]
       ELSE <<start, end>>

\* the loop that finds the brace matching the one at position k
RECURSIVE MatchClose(_, _, _)
MatchClose(p, k, depth) ==
    IF k > Len(p) THEN 0
    ELSE IF p[k] = 123 THEN MatchClose(p, k + 1, depth + 1)
    ELSE IF p[k] = 125
         THEN IF depth - 1 = 0 THEN k ELSE MatchClose(p, k + 1, depth - 1)
    ELSE MatchClose(p, k + 1, depth)

RECURSIVE TrimAll(_)
TrimAll(ss) == IF ss = <<>> THEN <<>> ELSE <<TrimSpace(Head(ss))>> \o TrimAll(Tail(ss))

\* the expansions of one brace content: a range when the content splits in
\* two at "..", else the comma-separated items
Expansions(content) ==
    LET parts == Split(content, S_dotdot)
        range == IF Index(content, S_dotdot) # 0 /\ Len(parts) = 2
                 THEN expandRange(TrimSpace(parts[1]), TrimSpace(parts[2]))
                 ELSE <<>>
    IN IF Len(range) = 0 THEN TrimAll(Split(content, S_comma)) ELSE range

RECURSIVE expandBraces(_)
RECURSIVE ExpandEach(_, _, _)
ExpandEach(prefix, exps, suffix) ==
    IF exps = <<>> THEN <<>>
    ELSE expandBraces(prefix \o Head(exps) \o suffix)
         \o ExpandEach(prefix, Tail(exps), suffix)

expandBraces(pattern) ==
    LET start == Index(pattern, <<123>>)
        end == MatchClose(pattern, start, 0)
    IN IF start = 0 THEN <<pattern>>
       ELSE IF end = 0 THEN <<pattern>>
       ELSE ExpandEach(SubSeq(pattern, 1, start - 1),
                       Expansions(SubSeq(pattern, start + 1, end - 1)),
                       SubSeq(pattern, end + 1, Len(pattern)))

\* filepath.Glob on the patterns of the model: an unclosed '[' is
\* ErrBadPattern; a pattern without any of * ? [ \ matches itself when it
\* exists.  Patterns with other wildcards are outside the model's inputs.
HasMeta(p) == \E k \in 1..Len(p) : p[k] \in {42, 63, 91, 92}

Glob(p) ==
    IF (\E k \in 1..Len(p) : p[k] = 91 /\ \A m \in (k + 1)..Len(p) : p[m] # 93)
    THEN [err |-> S_badpat, matches |-> <<>>]
    ELSE IF ~HasMeta(p) /\ p \in DOMAIN Tree THEN [err |-> NilErr, matches |-> <<p>>]
    ELSE [err |-> NilErr, matches |-> <<>>]

RECURSIVE AppendUnseen(_, _)
AppendUnseen(result, ms) ==
    IF ms = <<>> THEN result
    ELSE IF \E k \in 1..Len(result) : result[k] = Head(ms)
         THEN AppendUnseen(result, Tail(ms))
         ELSE AppendUnseen(Append(result, Head(ms)), Tail(ms))

\* expandPatterns: braces, then globs, keeping each path once
RECURSIVE ExpandList(_, _)
ExpandList(exps, result) ==
    IF exps = <<>> THEN [err |-> NilErr, paths |-> result]
    ELSE LET g == Glob(Head(exps))
         IN IF g.err # NilErr
            THEN [err |-> S_invalid \o Head(exps) \o S_colonSpace \o g.err,
                  paths |-> <<>>]
            ELSE ExpandList(Tail(exps),
                            AppendUnseen(result,
                                IF g.matches = <<>> THEN <<Head(exps)>> ELSE g.matches))

RECURSIVE BracesOfAll(_)
BracesOfAll(patterns) ==
    IF patterns = <<>> THEN <<>>
    ELSE expandBraces(Head(patterns)) \o BracesOfAll(Tail(patterns))

expandPatterns(patterns) == ExpandList(BracesOfAll(patterns), <<>>)

-----------------------------------------------------------------------------
(* Directory listing of part_000: listSingle and listRecursive run without *)
(* any suspension point, so each is computed as the events it writes.      *)

\* the output loop of listSingle: one line per entry, a diagnostic for an
\* entry whose Info fails
RECURSIVE SingleLines(_, _, _, _, _)
SingleLines(flg, flt, top, dir, names) ==
    IF names = <<>> THEN <<>>
    ELSE LET fullPath == Join(dir, Head(names))
             err == InfoErr(flt, fullPath)
             ev == IF err # NilErr
                   THEN [stream |-> "err", ev |-> ErrEv(fullPath, err, top)]
                   ELSE [stream |-> "out",
                         ev |-> OutEv(printFile("cmd", flg, fullPath).text,
                                      "entry", fullPath, dir, top)]
         IN <<ev>> \o SingleLines(flg, flt, top, dir, Tail(names))

\* listSingle
listSingle(flg, flt, top, dirPath) ==
    LET rd == ReadDir(flt, dirPath)
        sorted == sortEntries("cmd", flg, flt, FALSE, dirPath,
                              FilterEntries(flg, rd.names))
    IN IF rd.err # NilErr THEN [err |-> rd.err, evs |-> <<>>]
       ELSE [err |-> NilErr,
             evs |-> SingleLines(flg, flt, top, dirPath, sorted.items)]

\* filepath.WalkDir with the callback of listRecursive: the callback runs on
\* the directory itself, then on its entries in lexical order; a ReadDir
\* error is handed to the callback in a second call
RECURSIVE walkDir(_, _, _, _, _)
RECURSIVE WalkEntries(_, _, _, _, _, _)
WalkEntries(flg, flt, top, root, dir, names) ==
    IF names = <<>> THEN <<>>
    ELSE walkDir(flg, flt, top, root, Join(dir, Head(names)))
         \o WalkEntries(flg, flt, top, root, dir, Tail(names))

walkDir(flg, flt, top, root, path) ==
    LET d == Tree[path]
        skip == ~flg.AllFiles /\ HasPrefix(Base(path), S_dot) /\ path # root
        ierr == IF path = root THEN NilErr ELSE InfoErr(flt, path)
        parent == IF path = root THEN <<>>
                  ELSE IF Len(path) = Len(Base(path)) THEN S_dot
                  ELSE SubSeq(path, 1, Len(path) - Len(Base(path)) - 1)
        first == IF ierr # NilErr
                 THEN <<[stream |-> "err", ev |-> ErrEv(path, ierr, top)]>>
                 ELSE <<[stream |-> "out",
                         ev |-> OutEv(printFile("cmd", flg, path).text,
                                      IF path = root THEN "self" ELSE "entry",
                                      path, parent, top)]>>
        rd == ReadDir(flt, path)
        second == IF rd.err # NilErr
                  THEN <<[stream |-> "err", ev |-> ErrEv(path, rd.err, top)]>>
                  ELSE <<>>
    IN IF skip THEN <<>>
       ELSE IF ~d.isDir THEN first
       ELSE first \o second \o WalkEntries(flg, flt, top, root, path, rd.names)

\* listRecursive
listRecursive(flg, flt, top, dirPath) ==
    [err |-> NilErr, evs |-> walkDir(flg, flt, top, dirPath, dirPath)]

RECURSIVE StreamOf(_, _)
StreamOf(evs, stream) ==
    IF evs = <<>> THEN <<>>
    ELSE IF Head(evs).stream = stream
         THEN <<Head(evs).ev>> \o StreamOf(Tail(evs), stream)
         ELSE StreamOf(Tail(evs), stream)

-----------------------------------------------------------------------------
(* The listing as a state machine.                                         *)

PathAlphabet == {P_d, P_f, P_x, P_braces, P_bad}

PathLists == UNION {[1..n -> PathAlphabet] : n \in 0..MaxPaths}

Idle == <<>>

InitCommand ==
    /\ impl \in {"ls", "cmd"}
    /\ flags \in FlagSpace
    /\ positional \in PathLists
    /\ fault \in Faults
    /\ pc = "start"
    /\ paths = <<>>
    /\ i = 0
    /\ stack = <<>>
    /\ stdout = <<>>
    /\ stderr = <<>>
    /\ ret = NilErr
    /\ outTag = <<>>
    /\ errTag = <<>>
    /\ observed = FALSE
    /\ obsOut = 0
    /\ obsErr = 0
    /\ hsize = Idle /\ hout = Idle /\ bpattern = Idle /\ bout = Idle

\* the context is context.Background(), as in the repository's tests and
\* examples, or one its owner may cancel; part_000 never reads its context
Init ==
    /\ InitCommand
    /\ ctx \in IF impl = "ls" THEN {"background", "live"} ELSE {"background"}

\* yup.CheckContextCancellation(ctx) reports an error
Cancelled == ctx = "cancelled"

\* history of the first cancellation check that saw the signal
Observe(seen) ==
    /\ observed' = (observed \/ seen)
    /\ obsOut' = IF seen /\ ~observed THEN Len(stdout) ELSE obsOut
    /\ obsErr' = IF seen /\ ~observed THEN Len(stderr) ELSE obsErr

Write(outs, errs) ==
    /\ stdout' = stdout \o TextsOf(outs)
    /\ outTag' = outTag \o TagsOf(outs)
    /\ stderr' = stderr \o TextsOf(errs)
    /\ errTag' = errTag \o TagsOf(errs)

Inputs == <<impl, flags, positional, fault>>

\* ctx is cancelled by its owner at any moment
Cancel ==
    /\ ctx = "live"
    /\ pc \in {"start", "loop", "call"}
    /\ ctx' = "cancelled"
    /\ UNCHANGED <<Inputs, pc, paths, i, stack, stdout, stderr, ret, outTag,
                   errTag, observed, obsOut, obsErr, fnVars>>

\* Execute, up to the loop (ls.go 30-39)
Execute_Start ==
    /\ impl = "ls" /\ pc = "start"
    /\ Observe(Cancelled)
    /\ IF Cancelled
       THEN /\ ret' = S_canceled /\ pc' = "done"
            /\ UNCHANGED <<paths, i>>
       ELSE /\ paths' = IF Len(positional) = 0 THEN <<S_dot>> ELSE positional
            /\ i' = 1 /\ pc' = "loop"
            /\ UNCHANGED ret
    /\ UNCHANGED <<Inputs, ctx, stack, stdout, stderr, outTag, errTag, fnVars>>

\* what Execute writes before it lists the i-th path (ls.go 47-53)
PathHeader(ps, k) ==
    (IF Len(ps) > 1 /\ k > 1 THEN <<OutEv(<<>>, "topblank", ps[k], <<>>, k)>> ELSE <<>>)
    \o (IF Len(ps) > 1 THEN <<OutEv(HeaderLine(ps[k]), "topheader", ps[k], <<>>, k)>>
        ELSE <<>>)

NewFrame(path) == [path |-> path, items |-> <<>>, k |-> 0, phase |-> "begin"]

\* one iteration of Execute's loop up to the call of listPath (ls.go 41-55)
Execute_Path ==
    /\ impl = "ls" /\ pc = "loop" /\ i <= Len(paths)
    /\ Observe(Cancelled)
    /\ IF Cancelled
       THEN /\ ret' = S_canceled /\ pc' = "done"
            /\ UNCHANGED <<stack, stdout, stderr, outTag, errTag>>
       ELSE /\ Write(PathHeader(paths, i), <<>>)
            /\ stack' = <<NewFrame(paths[i])>>
            /\ pc' = "call"
            /\ UNCHANGED ret
    /\ UNCHANGED <<Inputs, ctx, paths, i, fnVars>>

\* Execute returns nil after the last path (ls.go 60)
Execute_Return ==
    /\ impl = "ls" /\ pc = "loop" /\ i > Len(paths)
    /\ ret' = NilErr /\ pc' = "done"
    /\ UNCHANGED <<Inputs, ctx, paths, i, stack, stdout, stderr, outTag, errTag,
                   observed, obsOut, obsErr, fnVars>>

\* an Execute that drops the error of listPath
TopReport_Silent(path, err, top) == <<>>

\* what Execute writes when listPath returns err to it (ls.go 55-57)
TopReport(path, err, top) == IF err # NilErr THEN <<ErrEv(path, err, top)>> ELSE <<>>

\* listPath returns err after writing outs and errs: to Execute, which reports
\* the error and moves to the next path, or to the listPath that called it,
\* which drops the error (ls.go 138)
ReturnFrom(err, outs, errs) ==
    /\ stack' = SubSeq(stack, 1, Len(stack) - 1)
    /\ IF Len(stack) = 1
       THEN /\ Write(outs, errs \o TopReport(paths[i], err, i))
            /\ i' = i + 1
            /\ pc' = "loop"
       ELSE /\ Write(outs, errs)
            /\ UNCHANGED <<i, pc>>

\* the program stops on a run-time panic
Panic(kind) ==
    /\ pc' = kind
    /\ UNCHANGED <<i, stack, stdout, stderr, outTag, errTag>>

\* listPath from its entry to the sorted snapshot (ls.go 63-114)
listPath_Begin ==
    /\ impl = "ls" /\ pc = "call"
    /\ stack[Len(stack)].phase = "begin"
    /\ Observe(Cancelled)
    /\ LET path == stack[Len(stack)].path
           rd == ReadDir(fault, path)
           line == printFile("ls", flags, path)
           sorted == sortEntries("ls", flags, fault, Cancelled, path,
                                 FilterEntries(flags, rd.names))
       IN IF Cancelled THEN ReturnFrom(S_canceled, <<>>, <<>>)
          ELSE IF Stat(path) # NilErr THEN ReturnFrom(Stat(path), <<>>, <<>>)
          ELSE IF ~Tree[path].isDir
               THEN IF line.panic THEN Panic("panic_index")
                    ELSE ReturnFrom(NilErr,
                                    <<OutEv(line.text, "entry", path, <<>>, i)>>, <<>>)
          ELSE IF rd.err # NilErr THEN ReturnFrom(rd.err, <<>>, <<>>)
          ELSE IF sorted.panic THEN Panic("panic_nil")
          ELSE /\ stack' = [stack EXCEPT ![Len(stack)] =
                              [path |-> path, items |-> sorted.items,
                               k |-> 1, phase |-> "print"]]
               /\ UNCHANGED <<i, pc, stdout, stderr, outTag, errTag>>
    /\ UNCHANGED <<Inputs, ctx, paths, ret, fnVars>>

\* one iteration of the print loop of listPath (ls.go 117-140)
listPath_Entry ==
    /\ impl = "ls" /\ pc = "call"
    /\ stack[Len(stack)].phase = "print"
    /\ stack[Len(stack)].k <= Len(stack[Len(stack)].items)
    /\ LET f == stack[Len(stack)]
           checked == (f.k - 1) % 100 = 0
           entryPath == Join(f.path, f.items[f.k])
           ierr == InfoErr(fault, entryPath)
           line == printFile("ls", flags, entryPath)
           next == [stack EXCEPT ![Len(stack)].k = f.k + 1]
           entry == OutEv(line.text, "entry", entryPath, f.path, i)
       IN /\ Observe(checked /\ Cancelled)
          /\ IF checked /\ Cancelled THEN ReturnFrom(S_canceled, <<>>, <<>>)
             ELSE IF ierr # NilErr
                  THEN /\ Write(<<>>, <<ErrEv(entryPath, ierr, i)>>)
                       /\ stack' = next
                       /\ UNCHANGED <<i, pc>>
             ELSE IF line.panic THEN Panic("panic_index")
             ELSE IF flags.Recursive /\ Tree[entryPath].isDir
                  THEN /\ Write(<<entry,
                                  OutEv(<<>>, "blank", entryPath, f.path, i),
                                  OutEv(HeaderLine(entryPath), "header",
                                        entryPath, f.path, i)>>, <<>>)
                       /\ stack' = Append(next, NewFrame(entryPath))
                       /\ UNCHANGED <<i, pc>>
             ELSE /\ Write(<<entry>>, <<>>)
                  /\ stack' = next
                  /\ UNCHANGED <<i, pc>>
    /\ UNCHANGED <<Inputs, ctx, paths, ret, fnVars>>

\* listPath returns nil after its last entry (ls.go 142)
listPath_End ==
    /\ impl = "ls" /\ pc = "call"
    /\ stack[Len(stack)].phase = "print"
    /\ stack[Len(stack)].k > Len(stack[Len(stack)].items)
    /\ ReturnFrom(NilErr, <<>>, <<>>)
    /\ UNCHANGED <<Inputs, ctx, paths, ret, observed, obsOut, obsErr, fnVars>>

\* Executor, up to the loop: pattern expansion (part_000 50-66)
Executor_Start ==
    /\ impl = "cmd" /\ pc = "start"
    /\ LET patterns == IF Len(positional) = 0 THEN <<S_dot>> ELSE positional
           x == expandPatterns(patterns)
       IN IF x.err # NilErr
          THEN /\ stderr' = Append(stderr, S_ls \o x.err)
               /\ errTag' = Append(errTag, [kind |-> "pattern", path |-> <<>>, top |-> 0])
               /\ ret' = x.err /\ pc' = "done"
               /\ UNCHANGED <<paths, i>>
          ELSE /\ paths' = IF Len(x.paths) = 0 THEN patterns ELSE x.paths
               /\ i' = 1 /\ pc' = "loop"
               /\ UNCHANGED <<stderr, errTag, ret>>
    /\ UNCHANGED <<Inputs, ctx, stack, stdout, outTag, observed, obsOut, obsErr, fnVars>>

\* one iteration of Executor's loop: stat, a file's line, or the dispatch of
\* listDirectory (part_000 69-85, 234-239)
Executor_Path ==
    /\ impl = "cmd" /\ pc = "loop" /\ i <= Len(paths)
    /\ LET path == paths[i]
       IN IF Stat(path) # NilErr
          THEN /\ Write(<<>>, <<ErrEv(path, Stat(path), i)>>)
               /\ i' = i + 1 /\ UNCHANGED pc
          ELSE IF ~Tree[path].isDir
          THEN /\ Write(<<OutEv(printFile("cmd", flags, path).text,
                                "entry", path, <<>>, i)>>, <<>>)
               /\ i' = i + 1 /\ UNCHANGED pc
          ELSE /\ pc' = IF flags.Recursive THEN "listRecursive" ELSE "listSingle"
               /\ UNCHANGED <<i, stdout, stderr, outTag, errTag>>
    /\ UNCHANGED <<Inputs, ctx, paths, stack, ret, observed, obsOut, obsErr, fnVars>>

\* what Executor does with the result of listDirectory (part_000 85-87)
AfterListDirectory(r) ==
    /\ Write(StreamOf(r.evs, "out"),
             StreamOf(r.evs, "err") \o TopReport(paths[i], r.err, i))
    /\ i' = i + 1
    /\ pc' = "loop"
    /\ UNCHANGED <<Inputs, ctx, paths, stack, ret, observed, obsOut, obsErr, fnVars>>

\* listSingle on the i-th path (part_000 242-274)
Executor_listSingle ==
    /\ impl = "cmd" /\ pc = "listSingle"
    /\ AfterListDirectory(listSingle(flags, fault, i, paths[i]))

\* listRecursive on the i-th path (part_000 277-305)
Executor_listRecursive ==
    /\ impl = "cmd" /\ pc = "listRecursive"
    /\ AfterListDirectory(listRecursive(flags, fault, i, paths[i]))

\* Executor returns nil after the last path (part_000 90)
Executor_Return ==
    /\ impl = "cmd" /\ pc = "loop" /\ i > Len(paths)
    /\ ret' = NilErr /\ pc' = "done"
    /\ UNCHANGED <<Inputs, ctx, paths, i, stack, stdout, stderr, outTag, errTag,
                   observed, obsOut, obsErr, fnVars>>

Next ==
    \/ Cancel
    \/ Execute_Start
    \/ Execute_Path
    \/ Execute_Return
    \/ listPath_Begin
    \/ listPath_Entry
    \/ listPath_End
    \/ Executor_Start
    \/ Executor_Path
    \/ Executor_listSingle
    \/ Executor_listRecursive
    \/ Executor_Return

Spec == Init /\ [][Next]_vars

-----------------------------------------------------------------------------
(* The pure functions, applied to inputs drawn from bounded sets.          *)

IdleCommand ==
    /\ flags = Idle /\ positional = Idle /\ fault = NoFault
    /\ ctx = "background" /\ paths = <<>> /\ i = 0 /\ stack = <<>>
    /\ stdout = <<>> /\ stderr = <<>> /\ ret = NilErr
    /\ outTag = <<>> /\ errTag = <<>>
    /\ observed = FALSE /\ obsOut = 0 /\ obsErr = 0

Int64Limbs == 7

\* the leading base-1024 digits tried; the digits after the second are 0
LeadDigits == {1, 2, 7, 512, 1023}
NextDigits == {0, 256, 512, 972, 1023}

\* sizes 0 <= s < 2^63: at most 7 digits, the 7th from the right below 8
SizeInputs ==
    {<<v>> : v \in LeadDigits \cup {0, 10}}
    \cup {<<a, b>> \o [k \in 1..n |-> 0] :
            a \in LeadDigits, b \in NextDigits, n \in 0..(Int64Limbs - 3)}
    \cup {<<a, b>> \o [k \in 1..(Int64Limbs - 2) |-> 0] :
            a \in {v \in LeadDigits : v < 8}, b \in NextDigits}

InitHuman ==
    /\ IdleCommand
    /\ impl \in {"ls", "cmd"}
    /\ pc = "humanReadableSize"
    /\ hsize \in SizeInputs
    /\ hout = Idle /\ bpattern = Idle /\ bout = Idle

\* one call of humanReadableSize (ls.go 200-214) or formatHumanReadable
\* (part_000 367-379)
Human_Call ==
    /\ pc = "humanReadableSize"
    /\ hout' = humanReadableSize(impl, hsize)
    /\ pc' = IF hout'.panic THEN "panic_index" ELSE "done"
    /\ UNCHANGED <<Inputs, ctx, paths, i, stack, stdout, stderr, ret, outTag,
                   errTag, observed, obsOut, obsErr, hsize, bpattern, bout>>

NextHuman == Human_Call

SpecHuman == InitHuman /\ [][NextHuman]_vars

\* the pieces patterns are put together from
BraceTokens ==
    {<<97>>,                                         \* a
     <<123>>, <<125>>,                               \* { and }
     <<123, 97, 44, 98, 125>>,                       \* {a,b}
     <<123, 97, 44, 98, 44, 99, 125>>,               \* {a,b,c}
     <<123, 49, 44, 50, 125>>,                       \* {1,2}
     <<123, 49, 46, 46, 51, 125>>,                   \* {1..3}
     <<123, 51, 46, 46, 49, 125>>,                   \* {3..1}
     <<123, 45, 49, 46, 46, 49, 125>>,               \* {-1..1}
     <<123, 97, 46, 46, 99, 125>>,                   \* {a..c}
     <<123, 97, 46, 46, 98, 44, 99, 125>>,           \* {a..b,c}
     <<123, 32, 97, 44, 98, 32, 125>>}               \* { a,b }

BracePatterns ==
    {Concat(ts) : ts \in UNION {[1..n -> BraceTokens] : n \in 0..MaxTokens}}

InitBraces ==
    /\ IdleCommand
    /\ impl = "cmd"
    /\ pc = "expandBraces"
    /\ bpattern \in BracePatterns
    /\ bout = Idle /\ hsize = Idle /\ hout = Idle

\* one call of expandBraces (part_000 95-155)
Braces_Call ==
    /\ pc = "expandBraces"
    /\ bout' = expandBraces(bpattern)
    /\ pc' = "done"
    /\ UNCHANGED <<Inputs, ctx, paths, i, stack, stdout, stderr, ret, outTag,
                   errTag, observed, obsOut, obsErr, hsize, hout, bpattern>>

NextBraces == Braces_Call

SpecBraces == InitBraces /\ [][NextBraces]_vars

-----------------------------------------------------------------------------
(* Properties.                                                             *)

\* the lines of stdout and stderr written while the t-th path was processed
OutIdx(t) == {k \in 1..Len(stdout) : outTag[k].top = t}
ErrIdx(t) == {k \in 1..Len(stderr) : errTag[k].top = t}

\* the top-level loop is past the t-th path
Finished(t) == pc \in {"loop", "call", "listSingle", "listRecursive", "done"} /\ i > t

\* the path is a directory whose contents can be read
ReadableDir(p) ==
    /\ p \in DOMAIN Tree
    /\ Tree[p].isDir
    /\ fault # [op |-> "read", path |-> p]

\* the names on the entry lines of directory dir written for the t-th path
ListedNames(t, dir) ==
    {stdout[k] : k \in {m \in OutIdx(t) : outTag[m].kind = "entry" /\ outTag[m].dir = dir}}

\* C1 as claimed: for every directory listed non-recursively in short form
\* (read without error, listing run to its end without cancellation), the set
\* of names written equals the directory's children, less the names that
\* begin with '.' unless allFiles is set.
C1_AllVisibleChildrenListed ==
    \A t \in 1..Len(paths) :
        (/\ Finished(t) /\ ~observed
         /\ ReadableDir(paths[t])
         /\ ~flags.Recursive /\ ~flags.LongFormat)
        => ListedNames(t, paths[t])
             = {n \in DirNames(paths[t]) : flags.AllFiles \/ n[1] # 46}

\* C1 as amended: the set of names written equals the set of those children
\* (less the hidden ones unless allFiles is set) whose metadata could be
\* retrieved; a child whose Info fails is not listed.
C1_RetrievableVisibleChildrenListed ==
    \A t \in 1..Len(paths) :
        (/\ Finished(t) /\ ~observed
         /\ ReadableDir(paths[t])
         /\ ~flags.Recursive /\ ~flags.LongFormat)
        => ListedNames(t, paths[t])
             = {n \in DirNames(paths[t]) :
                   /\ flags.AllFiles \/ n[1] # 46
                   /\ fault # [op |-> "info", path |-> Join(paths[t], n)]}

\* a directory with a hidden child and a child whose Info fails has been
\* listed in short form, with and without the hidden child
C1_Witness ==
    /\ pc = "done" /\ ~observed
    /\ paths = <<P_d>>
    /\ ~flags.Recursive /\ ~flags.LongFormat /\ flags.AllFiles
    /\ fault = [op |-> "info", path |-> P_da]
    /\ ListedNames(1, P_d) = {<<46, 104>>, <<98>>, <<115>>}

C3_CancellationHaltsOutput ==
    observed => (Len(stdout) = obsOut /\ Len(stderr) = obsErr)

MinOf(S) == CHOOSE k \in S : \A m \in S : k <= m

\* C4: with more than one path, the output of each path starts with its
\* "<path>:" header, after one blank line for every path but the first, and
\* the lines of one path stay together; with one path no such header or
\* blank line is written.
C4_MultiPathHeaders ==
    \A t \in 1..Len(paths) :
        Finished(t)
        => IF Len(paths) > 1
           THEN /\ OutIdx(t) # {}
                /\ \A k \in OutIdx(t) : \A m \in MinOf(OutIdx(t))..k : m \in OutIdx(t)
                /\ LET first == MinOf(OutIdx(t))
                   IN IF t = 1 THEN stdout[first] = paths[t] \o <<58>>
                      ELSE /\ stdout[first] = <<>>
                           /\ first + 1 \in OutIdx(t)
                           /\ stdout[first + 1] = paths[t] \o <<58>>
           ELSE \A k \in OutIdx(t) : outTag[k].kind \notin {"topblank", "topheader"}

\* the entries of a readable directory that a listing shows
ShownEntries(dir) ==
    {n \in DirNames(dir) :
        /\ flags.AllFiles \/ n[1] # 46
        /\ fault # [op |-> "info", path |-> Join(dir, n)]}

\* C5: with recursive set, the line of a child that is a directory is
\* followed by a blank line, the header "<child path>:" and then the lines
\* of the child's visible entries.
C5_RecursiveDescent ==
    flags.Recursive
    => \A k \in 1..Len(stdout) :
         (/\ outTag[k].kind = "entry"
          /\ outTag[k].dir # <<>>
          /\ Tree[outTag[k].path].isDir)
         => /\ k + 2 <= Len(stdout)
            /\ stdout[k + 1] = <<>>
            /\ stdout[k + 2] = outTag[k].path \o <<58>>
            /\ (pc = "done" /\ ~observed /\ ReadableDir(outTag[k].path))
               => \A n \in ShownEntries(outTag[k].path) :
                    \E m \in (k + 3)..Len(stdout) :
                        /\ outTag[m].kind = "entry"
                        /\ outTag[m].path = Join(outTag[k].path, n)

\* C6: sorted by name, the entry lines of one directory are in strictly
\* ascending order of base name, strictly descending when reverse is set;
\* the directory d under the default configuration gives a, b, s.
C6_NameOrder ==
    /\ flags.SortBy = "name"
       => \A k1, k2 \in 1..Len(stdout) :
            (/\ k1 < k2
             /\ outTag[k1].kind = "entry" /\ outTag[k2].kind = "entry"
             /\ outTag[k1].dir # <<>>
             /\ outTag[k1].dir = outTag[k2].dir
             /\ outTag[k1].top = outTag[k2].top)
            => IF flags.Reverse
               THEN StrLess(Base(outTag[k2].path), Base(outTag[k1].path))
               ELSE StrLess(Base(outTag[k1].path), Base(outTag[k2].path))
    /\ (/\ pc = "done" /\ ~observed /\ paths = <<P_d>> /\ fault = NoFault
        /\ flags = [LongFormat |-> FALSE, AllFiles |-> FALSE,
                    HumanReadable |-> FALSE, Recursive |-> FALSE,
                    Reverse |-> FALSE, SortBy |-> "name"])
       => stdout = <<<<97>>, <<98>>, <<115>>>>

\* the listing of the t-th path reaches directory p
Reaches(t, p) ==
    \/ paths[t] = p
    \/ /\ flags.Recursive
       /\ paths[t] \in DOMAIN Tree
       /\ paths[t] = S_dot \/ HasPrefix(p, paths[t] \o <<47>>)

\* C8: a directory reached by a listing, at top level or in a recursive
\* descent, whose contents cannot be read gets exactly one diagnostic line
\* "ls: <path>: <error>" and no entry line, and the listing goes on.
C8_ReadErrorReportedOnce ==
    (pc = "done" /\ ~observed /\ i >= 1 /\ fault.op = "read")
    => /\ i = Len(paths) + 1
       /\ \A t \in 1..Len(paths) :
            Reaches(t, fault.path)
            => /\ Cardinality({k \in ErrIdx(t) : errTag[k].path = fault.path}) = 1
               /\ \A k \in ErrIdx(t) :
                    errTag[k].path = fault.path
                    => stderr[k] = S_ls \o fault.path \o S_colonSpace
                                   \o S_open \o fault.path \o S_colonSpace \o S_eacces
               /\ ListedNames(t, fault.path) = {}

\* C9: sorting by time or size a snapshot in which the metadata of an entry
\* cannot be retrieved completes without a crash.
C9_SortSurvivesMissingMetadata == pc # "panic_nil"

\* C10: the human-readable size is defined for every size: below 1024 the
\* byte count and 'B'; else one fractional digit and the k-th suffix of
\* K M G T P E for the largest k with 1024^(k+1) <= s, the index staying
\* inside the table.
C10_HumanReadableDefined ==
    (pc # "humanReadableSize" /\ hout # Idle)
    => /\ ~hout.panic
       /\ Len(hsize) = 1 => hout.text = DecSize(hsize) \o <<66>>
       /\ Len(hsize) > 1
          => /\ hout.text[Len(hout.text)] = <<75, 77, 71, 84, 80, 69>>[Len(hsize) - 1]
             /\ hout.text[Len(hout.text) - 2] = 46
       /\ hsize = <<0>> => hout.text = <<48, 66>>
       /\ hsize = <<1023>> => hout.text = <<49, 48, 50, 51, 66>>
       /\ hsize = <<1, 512>> => hout.text = <<49, 46, 53, 75>>
       /\ hsize = <<1, 0, 0>> => hout.text = <<49, 46, 48, 77>>


BraceFree(s) == \A k \in 1..Len(s) : s[k] \notin {123, 125}

\* what lies before, inside and after the braces of the first group, for a
\* pattern whose first '{' comes before its first '}'
GroupPrefix(p) == SubSeq(p, 1, Index(p, <<123>>) - 1)
GroupContent(p) == SubSeq(p, Index(p, <<123>>) + 1, Index(p, <<125>>) - 1)
GroupSuffix(p) == SubSeq(p, Index(p, <<125>>) + 1, Len(p))

\* P{C}S with no other brace in it
SingleGroup(p) ==
    /\ Index(p, <<123>>) > 0
    /\ Index(p, <<125>>) > Index(p, <<123>>)
    /\ BraceFree(GroupPrefix(p)) /\ BraceFree(GroupContent(p)) /\ BraceFree(GroupSuffix(p))

IsInt(s) ==
    \/ s # <<>> /\ \A k \in 1..Len(s) : s[k] \in 48..57
    \/ Len(s) > 1 /\ s[1] = 45 /\ \A k \in 2..Len(s) : s[k] \in 48..57

IntOf(s) == IF s[1] = 45 THEN 0 - DigitsValue(Tail(s), 0) ELSE DigitsValue(s, 0)

\* m..n with integers m and n
IsIntRange(c) ==
    LET parts == Split(c, <<46, 46>>)
    IN Len(parts) = 2 /\ IsInt(parts[1]) /\ IsInt(parts[2])

IntsOfRange(c) ==
    LET parts == Split(c, <<46, 46>>)
        ns == Counting(IntOf(parts[1]), IntOf(parts[2]))
    IN [k \in 1..Len(ns) |-> Sprintd(ns[k])]

Wrap(prefix, alts, suffix) == [k \in 1..Len(alts) |-> prefix \o alts[k] \o suffix]

\* C7 as claimed: [pattern] without a brace group; for P{i1,...,in}S (a
\* content with a comma, or without "..") the list P+i1+S, ..., P+in+S; for
\* P{m..n}S the integers from m to n, up or down; '{a,b}{1,2}' gives a1, a2,
\* b1, b2.
C7_BraceExpansion ==
    pc = "done"
    => /\ BraceFree(bpattern) => bout = <<bpattern>>
       /\ (/\ SingleGroup(bpattern)
           /\ \/ Index(GroupContent(bpattern), <<44>>) > 0
              \/ Index(GroupContent(bpattern), <<46, 46>>) = 0)
          => bout = Wrap(GroupPrefix(bpattern),
                         Split(GroupContent(bpattern), <<44>>),
                         GroupSuffix(bpattern))
       /\ (SingleGroup(bpattern) /\ IsIntRange(GroupContent(bpattern)))
          => bout = Wrap(GroupPrefix(bpattern),
                         IntsOfRange(GroupContent(bpattern)),
                         GroupSuffix(bpattern))
       /\ bpattern = <<123, 97, 44, 98, 125, 123, 49, 44, 50, 125>>
          => bout = <<<<97, 49>>, <<97, 50>>, <<98, 49>>, <<98, 50>>>>

\* the braces are balanced and not nested, and a content holds ".." only as
\* an integer range
RECURSIVE FlatPattern(_)
FlatPattern(p) ==
    \/ BraceFree(p)
    \/ /\ Index(p, <<123>>) > 0
       /\ Index(p, <<125>>) > Index(p, <<123>>)
       /\ BraceFree(GroupContent(p))
       /\ IsIntRange(GroupContent(p)) \/ Index(GroupContent(p), <<46, 46>>) = 0
       /\ FlatPattern(GroupSuffix(p))

\* the alternatives of one group: the integers of a range, else the items
\* between the commas without the white space around them
Alternatives(c) ==
    IF IsIntRange(c) THEN IntsOfRange(c) ELSE TrimAll(Split(c, <<44>>))

\* every alternative of the first group before every expansion of the rest
Product(prefix, alts, rest) ==
    [k \in 1..(Len(alts) * Len(rest)) |->
        prefix \o alts[((k - 1) \div Len(rest)) + 1] \o rest[((k - 1) % Len(rest)) + 1]]

RECURSIVE Combinations(_)
Combinations(p) ==
    IF Index(p, <<123>>) = 0 THEN <<p>>
    ELSE Product(GroupPrefix(p), Alternatives(GroupContent(p)),
                 Combinations(GroupSuffix(p)))

\* C7 as amended: for a pattern whose braces are balanced and not nested and
\* whose brace contents hold ".." only as an integer range, the result is the
\* list of combinations, the leftmost group varying slowest, of the
\* alternatives of each group: the integers from m to n, up or down, for
\* m..n, else the comma-separated items with surrounding white space
\* removed; a pattern without braces gives itself.
C7_FlatBraceExpansion ==
    (pc = "done" /\ FlatPattern(bpattern)) => bout = Combinations(bpattern)

\* two groups, a list and a descending range, have been expanded
C7_Witness ==
    /\ pc = "done"
    /\ bpattern = <<123, 97, 44, 98, 125, 123, 51, 46, 46, 49, 125>>
    /\ bout = <<<<97, 51>>, <<97, 50>>, <<97, 49>>, <<98, 51>>, <<98, 50>>, <<98, 49>>>>

====
